---- MODULE Spec2Model ----
(***************************************************************************)
(* Model of src/pta.py: the PTA wire-scanner file parser.                   *)
(*                                                                         *)
(* Strings are sequences of one-character strings, so that rstrip,         *)
(* startswith, str.split, int(), float(), lower() and format() are         *)
(* modelled by what they do to the characters.  Python's 0-based indices   *)
(* are shifted to TLA+'s 1-based ones.  A Python exception is modelled by  *)
(* a result record with ok = FALSE; an optional (None) value is the empty  *)
(* tuple and a present value v is <<v>>.                                   *)
(***************************************************************************)
EXTENDS Integers, Sequences, FiniteSets, TLC

VARIABLES filename, file, pc, timestamp, timestamp_short, pvloggerid,
          ws_id, lines, i, node_ids, k, self, wirescan,
          items, token, sublists

vars == <<filename, file, pc, timestamp, timestamp_short, pvloggerid,
          ws_id, lines, i, node_ids, k, self, wirescan,
          items, token, sublists>>

None == <<>>
Some(v) == <<v>>

Raise == [ok |-> FALSE, val |-> <<>>]
Ok(v) == [ok |-> TRUE, val |-> v]

(***************************************************************************)
(* Characters                                                              *)
(***************************************************************************)
Digits == <<"0", "1", "2", "3", "4", "5", "6", "7", "8", "9">>

UpperCase == <<"A", "B", "C", "D", "E", "F", "G", "H", "I", "J", "K", "L", "M",
               "N", "O", "P", "Q", "R", "S", "T", "U", "V", "W", "X", "Y", "Z">>

LowerCase == <<"a", "b", "c", "d", "e", "f", "g", "h", "i", "j", "k", "l", "m",
               "n", "o", "p", "q", "r", "s", "t", "u", "v", "w", "x", "y", "z">>

\* The characters of the model, in code-point order (the order sorted() uses).
Ascii == <<"\t", " ", "+", "-", ".", "/">> \o Digits \o <<":", "=">>
         \o UpperCase \o <<"_">> \o LowerCase

Ord(c) == CHOOSE n \in 1..Len(Ascii) : Ascii[n] = c

Whitespace == {"\t", " "}

IsDigit(c) == \E n \in 1..Len(Digits) : Digits[n] = c

DigitVal(c) == (CHOOSE n \in 1..Len(Digits) : Digits[n] = c) - 1

\* s[a:] with a 0-based, a >= 0
From(s, a) == SubSeq(s, a + 1, Len(s))

\* s[:b] with b 0-based, b >= 0
Upto(s, b) == SubSeq(s, 1, IF b < Len(s) THEN b ELSE Len(s))

(***************************************************************************)
(* String methods                                                          *)
(***************************************************************************)
RECURSIVE rstrip(_)
rstrip(s) ==
    IF s # <<>> /\ s[Len(s)] \in Whitespace
    THEN rstrip(SubSeq(s, 1, Len(s) - 1))
    ELSE s

RECURSIVE lstrip(_)
lstrip(s) ==
    IF s # <<>> /\ s[1] \in Whitespace THEN lstrip(Tail(s)) ELSE s

strip(s) == lstrip(rstrip(s))

startswith(s, p) == Len(s) >= Len(p) /\ SubSeq(s, 1, Len(p)) = p

\* 1-based index of the first occurrence of sep in s, 0 when there is none
find(s, sep) ==
    LET hits == {n \in 1..(Len(s) - Len(sep) + 1) :
                    SubSeq(s, n, n + Len(sep) - 1) = sep}
    IN IF hits = {} THEN 0 ELSE CHOOSE n \in hits : \A m \in hits : n <= m

\* str.split(sep) for a non-empty separator
RECURSIVE str_split(_, _)
str_split(s, sep) ==
    LET n == find(s, sep)
    IN IF n = 0 THEN <<s>>
       ELSE <<SubSeq(s, 1, n - 1)>> \o str_split(From(s, n - 1 + Len(sep)), sep)

\* length of the longest whitespace-free prefix
RECURSIVE word_len(_)
word_len(s) ==
    IF s = <<>> \/ s[1] \in Whitespace THEN 0 ELSE 1 + word_len(Tail(s))

\* str.split() with no argument: runs of non-whitespace characters
RECURSIVE ws_split(_)
ws_split(s) ==
    LET t == lstrip(s)
    IN IF t = <<>> THEN <<>>
       ELSE <<SubSeq(t, 1, word_len(t))>> \o ws_split(From(t, word_len(t)))

lower(s) ==
    [n \in 1..Len(s) |->
        IF \E m \in 1..Len(UpperCase) : UpperCase[m] = s[n]
        THEN LowerCase[CHOOSE m \in 1..Len(UpperCase) : UpperCase[m] = s[n]]
        ELSE s[n]]

\* a < b in the lexicographic order of code points
RECURSIVE str_less(_, _)
str_less(a, b) ==
    IF b = <<>> THEN FALSE
    ELSE IF a = <<>> THEN TRUE
    ELSE IF a[1] # b[1] THEN Ord(a[1]) < Ord(b[1])
    ELSE str_less(Tail(a), Tail(b))

\* sorted(list(d)) of a set of strings
RECURSIVE sorted(_)
sorted(S) ==
    IF S = {} THEN <<>>
    ELSE LET m == CHOOSE a \in S : \A b \in S \ {a} : str_less(a, b)
         IN <<m>> \o sorted(S \ {m})

(***************************************************************************)
(* Numbers                                                                 *)
(***************************************************************************)
IsSign(c) == c \in {"+", "-"}

AllDigits(s) == \A n \in 1..Len(s) : IsDigit(s[n])

RECURSIVE digits_value(_)
digits_value(s) ==
    IF s = <<>> THEN 0
    ELSE 10 * digits_value(SubSeq(s, 1, Len(s) - 1)) + DigitVal(s[Len(s)])

\* int(s): surrounding whitespace, an optional sign, at least one digit
pyint(s) ==
    LET t == strip(s)
        body == IF t # <<>> /\ IsSign(t[1]) THEN Tail(t) ELSE t
    IN IF body = <<>> \/ ~AllDigits(body) THEN Raise
       ELSE IF t[1] = "-" THEN Ok(0 - digits_value(body))
       ELSE Ok(digits_value(body))

\* A float is the pair <<m, e>> that stands for m / 10^e, with e minimal.
RECURSIVE normal(_, _)
normal(m, e) ==
    IF m = 0 THEN <<0, 0>>
    ELSE IF e > 0 /\ m % 10 = 0 THEN normal(m \div 10, e - 1)
    ELSE <<m, e>>

\* float(s) on decimal literals: whitespace, sign, digits, optional fraction
pyfloat(s) ==
    LET t == strip(s)
        body == IF t # <<>> /\ IsSign(t[1]) THEN Tail(t) ELSE t
        parts == str_split(body, <<".">>)
        whole == parts[1]
        frac == IF Len(parts) = 2 THEN parts[2] ELSE <<>>
        mag == digits_value(whole \o frac)
    IN IF Len(parts) > 2 \/ ~AllDigits(whole) \/ ~AllDigits(frac)
          \/ whole \o frac = <<>>
       THEN Raise
       ELSE Ok(normal(IF t[1] = "-" THEN 0 - mag ELSE mag, Len(frac)))

RECURSIVE int_digits(_)
int_digits(n) ==
    IF n < 10 THEN <<Digits[n + 1]>>
    ELSE int_digits(n \div 10) \o <<Digits[(n % 10) + 1]>>

\* "{}".format(n) for an int
format_int(n) == IF n < 0 THEN <<"-">> \o int_digits(0 - n) ELSE int_digits(n)

\* "{:02.0f}".format(n) for an int: no decimals, zero-padded to width 2
format_02(n) ==
    IF n < 0 THEN <<"-">> \o int_digits(0 - n)
    ELSE IF n < 10 THEN <<"0">> \o int_digits(n)
    ELSE int_digits(n)

(***************************************************************************)
(* Module-level helpers of pta.py                                          *)
(***************************************************************************)
\* zip(*array): as many columns as the shortest row has entries
transpose(array) ==
    LET width == IF array = <<>> THEN 0
                 ELSE CHOOSE w \in {Len(array[r]) : r \in 1..Len(array)} :
                        \A r \in 1..Len(array) : w <= Len(array[r])
    IN [c \in 1..width |-> [r \in 1..Len(array) |-> array[r][c]]]

\* 1-based positions of token in items, ascending
RECURSIVE indices_of(_, _, _)
indices_of(its, tok, n) ==
    IF n > Len(its) THEN <<>>
    ELSE (IF its[n] = tok THEN <<n>> ELSE <<>>) \o indices_of(its, tok, n + 1)

split(its, tok) ==
    LET indices == indices_of(its, tok, 1)
        n == Len(indices)
        head == IF its[1] # tok THEN <<SubSeq(its, 1, indices[1] - 1)>> ELSE <<>>
        mid == [j \in 1..(n - 1) |->
                   SubSeq(its, indices[j] + 1, indices[j + 1] - 1)]
        last == IF its[Len(its)] # tok
                THEN <<SubSeq(its, indices[n] + 1, Len(its))>> ELSE <<>>
    IN IF its = <<>> \/ indices = <<>> THEN Raise
       ELSE Ok(head \o mid \o last)

string_to_list(string) ==
    LET tokens == ws_split(string)
    IN IF \E n \in 1..Len(tokens) : ~pyfloat(tokens[n]).ok THEN Raise
       ELSE Ok([n \in 1..Len(tokens) |-> pyfloat(tokens[n]).val])

(***************************************************************************)
(* Literals of pta.py                                                      *)
(***************************************************************************)
FilenameMarker == <<"W", "i", "r", "e", "A", "n", "a", "l", "y", "s", "i", "s",
                    "F", "m", "t", "-">>

PtaSuffix == <<".", "p", "t", "a">>

ScannerPrefix == <<"R", "T", "B", "T", "_", "D", "i", "a", "g">>

LoggerPrefix == <<"P", "V", "L", "o", "g", "g", "e", "r", "I", "D">>

sep == <<>>

Key(axis, kind) == <<"_", axis, "_">> \o kind

Rms == <<"r", "m", "s">>

Fit == <<"f", "i", "t">>

(***************************************************************************)
(* PTA.__init__ and the timestamp part of PTA.read_file                    *)
(***************************************************************************)
filename_short(fname) ==
    LET parts == str_split(fname, <<"/">>) IN parts[Len(parts)]

\* [int(token) for token in s.split(".")], unpacked into exactly three names
three_ints(s) ==
    LET tokens == str_split(s, <<".">>)
    IN IF \E n \in 1..Len(tokens) : ~pyint(tokens[n]).ok THEN Raise
       ELSE IF Len(tokens) # 3 THEN Raise
       ELSE Ok([n \in 1..3 |-> pyint(tokens[n]).val])

IsLeap(year) == year % 4 = 0 /\ (year % 100 # 0 \/ year % 400 = 0)

DaysInMonth(year, month) ==
    IF month = 2 THEN (IF IsLeap(year) THEN 29 ELSE 28)
    ELSE IF month \in {4, 6, 9, 11} THEN 30 ELSE 31

\* datetime(year, month, day, hour, minute, second) raises ValueError outside:
datetime_ok(year, month, day, hour, minute, second) ==
    /\ year \in 1..9999
    /\ month \in 1..12
    /\ day \in 1..DaysInMonth(year, month)
    /\ hour \in 0..23
    /\ minute \in 0..59
    /\ second \in 0..59

format_timestamp(year, month, day, hour, minute, second) ==
    format_int(year) \o format_02(month) \o format_02(day)
        \o format_02(hour) \o format_02(minute) \o format_02(second)

read_timestamp(fname) ==
    LET after == str_split(fname, FilenameMarker)
        date_time == str_split(after[Len(after)], <<"_">>)
        date == date_time[1]
        time == str_split(date_time[2], PtaSuffix)[1]
        ymd == three_ints(date)
        hms == three_ints(time)
    IN IF Len(date_time) # 2 THEN Raise
       ELSE IF ~ymd.ok \/ ~hms.ok THEN Raise
       ELSE IF ~datetime_ok(ymd.val[1], ymd.val[2], ymd.val[3],
                            hms.val[1], hms.val[2], hms.val[3])
       THEN Raise
       ELSE Ok([timestamp |-> ymd.val \o hms.val,
                timestamp_short |->
                    From(format_timestamp(ymd.val[1], ymd.val[2], ymd.val[3],
                                          hms.val[1], hms.val[2], hms.val[3]), 2)])

(***************************************************************************)
(* The per-scanner part of PTA.read_file                                   *)
(***************************************************************************)
\* a, b, c = split(lines[node_id], sep)[:3]
three_sections(block) ==
    LET r == split(block, sep)
    IN IF ~r.ok THEN Raise
       ELSE IF Len(r.val) < 3 THEN Raise
       ELSE Ok(Upto(r.val, 3))

\* section[2:]
drop_header(section) == From(section, 2)

\* [string_to_list(line) for line in section]
data_arr(section) ==
    IF \E n \in 1..Len(section) : ~string_to_list(section[n]).ok THEN Raise
    ELSE Ok([n \in 1..Len(section) |-> string_to_list(section[n]).val])

\* raw_columns with the amplitudes taken in the order of the file header
raw_columns_header_order(arr) ==
    LET cols == transpose(arr)
    IN IF Len(cols) # 7 THEN Raise
       ELSE Ok([pos |-> cols[1], fx |-> cols[2], fy |-> cols[3], fu |-> cols[4],
                x |-> cols[5], y |-> cols[6], u |-> cols[7]])

\* pos, fy, fu, fx, x, y, u = transpose(data_arr_raw)
raw_columns(arr) ==
    LET cols == transpose(arr)
    IN IF Len(cols) # 7 THEN Raise
       ELSE Ok([pos |-> cols[1], fy |-> cols[2], fu |-> cols[3], fx |-> cols[4],
                x |-> cols[5], y |-> cols[6], u |-> cols[7]])

\* pos, fy_fit, fu_fit, fx_fit, x, y, u = transpose(data_arr_fit)
fit_columns(arr) ==
    LET cols == transpose(arr)
    IN IF Len(cols) # 7 THEN Raise
       ELSE Ok([pos |-> cols[1], fy_fit |-> cols[2], fu_fit |-> cols[3],
                fx_fit |-> cols[4], x |-> cols[5], y |-> cols[6], u |-> cols[7]])

\* stats_line reading vals[0..5] by index instead of unpacking six names
stats_line_indexed(line) ==
    LET tokens == ws_split(line)
        vals == Tail(tokens)
    IN IF tokens = <<>> THEN Raise
       ELSE IF \E n \in 1..Len(vals) : ~pyfloat(vals[n]).ok THEN Raise
       ELSE IF Len(vals) < 6 THEN Raise
       ELSE Ok([name |-> lower(tokens[1]),
                vals |-> [n \in 1..6 |-> pyfloat(vals[n]).val]])

\* one pass of the loop over lines_stats, up to the unpacking of vals
stats_line(line) ==
    LET tokens == ws_split(line)
        vals == Tail(tokens)
    IN IF tokens = <<>> THEN Raise
       ELSE IF \E n \in 1..Len(vals) : ~pyfloat(vals[n]).ok THEN Raise
       ELSE IF Len(vals) # 6 THEN Raise
       ELSE Ok([name |-> lower(tokens[1]),
                vals |-> [n \in 1..6 |-> pyfloat(vals[n]).val]])

\* stats_entries with the values unpacked in the order rms, fit
stats_entries_rms_first(name, vals) ==
    LET keys == <<name \o Key("y", Rms), name \o Key("y", Fit),
                  name \o Key("u", Rms), name \o Key("u", Fit),
                  name \o Key("x", Rms), name \o Key("x", Fit)>>
    IN [key \in {keys[n] : n \in 1..6} |->
            vals[CHOOSE n \in 1..6 : keys[n] = key]]

\* the six assignments stats["{}_x_rms".format(name)] = stat_x_rms, ...
\* with stat_y_fit, stat_y_rms, stat_u_fit, stat_u_rms, stat_x_fit, stat_x_rms = vals
stats_entries(name, vals) ==
    LET keys == <<name \o Key("y", Fit), name \o Key("y", Rms),
                  name \o Key("u", Fit), name \o Key("u", Rms),
                  name \o Key("x", Fit), name \o Key("x", Rms)>>
    IN [key \in {keys[n] : n \in 1..6} |->
            vals[CHOOSE n \in 1..6 : keys[n] = key]]

\* d updated with the entries of e (later assignments overwrite earlier ones)
dict_update(d, e) ==
    [key \in DOMAIN d \cup DOMAIN e |-> IF key \in DOMAIN e THEN e[key] ELSE d[key]]

RECURSIVE read_stats(_, _)
read_stats(stats, lines_stats) ==
    IF lines_stats = <<>> THEN Ok(stats)
    ELSE LET r == stats_line(Head(lines_stats))
         IN IF ~r.ok THEN Raise
            ELSE read_stats(dict_update(stats, stats_entries(r.val.name, r.val.vals)),
                            Tail(lines_stats))

\* self[node_id] = {...}: x, y, u are the names last bound, by the fit unpacking
profile(raw, fit, stats) ==
    [x |-> fit.x, y |-> fit.y, u |-> fit.u,
     fx |-> raw.fx, fy |-> raw.fy, fu |-> raw.fu,
     fx_fit |-> fit.fx_fit, fy_fit |-> fit.fy_fit, fu_fit |-> fit.fu_fit,
     stats |-> stats]

\* the body of the loop over node_ids
read_node(block) ==
    LET secs == three_sections(block)
        lines_stats == drop_header(secs.val[1])
        lines_raw == drop_header(secs.val[2])
        lines_fit == drop_header(secs.val[3])
        data_arr_raw == data_arr(lines_raw)
        raw == raw_columns(data_arr_raw.val)
        data_arr_fit == data_arr(lines_fit)
        fit == fit_columns(data_arr_fit.val)
        stats == read_stats(<<>>, lines_stats)
    IN IF ~secs.ok THEN Raise
       ELSE IF ~data_arr_raw.ok THEN Raise
       ELSE IF ~raw.ok THEN Raise
       ELSE IF ~data_arr_fit.ok THEN Raise
       ELSE IF ~fit.ok THEN Raise
       ELSE IF ~stats.ok THEN Raise
       ELSE Ok(profile(raw.val, fit.val, stats.val))

\* self.pvloggerid = int(line.split("=")[1])
logger_id(line) ==
    LET parts == str_split(line, <<"=">>)
    IN IF Len(parts) < 2 THEN Raise ELSE pyint(parts[2])

(***************************************************************************)
(* Inputs: file bodies and filenames, written out as characters            *)
(***************************************************************************)
MaxRows == 2

MaxBlocks == 2

MaxLen == 3

RECURSIVE Join(_)
Join(tokens) ==
    IF tokens = <<>> THEN <<>>
    ELSE IF Len(tokens) = 1 THEN tokens[1]
    ELSE tokens[1] \o <<" ">> \o Join(Tail(tokens))

Numbers(vals) == [n \in 1..Len(vals) |-> format_int(vals[n])]

TitleLine == <<"p", "o", "s", " ", "x">>

RuleLine == <<"-", "-", "-">>

Section(rows) == <<TitleLine, RuleLine>> \o rows

Body(stats, raw, fit) ==
    Section(stats) \o <<sep>> \o Section(raw) \o <<sep>> \o Section(fit) \o <<sep>>

\* raw row r: position r, amplitudes r+1..r+3, wire positions r+4..r+6
RawRow(r) == Join(Numbers(<<r, r + 1, r + 2, r + 3, r + 4, r + 5, r + 6>>))

\* fit row r: amplitudes r+11..r+13, wire positions shifted by d
FitRow(r, d) ==
    Join(Numbers(<<r, r + 11, r + 12, r + 13, r + d + 4, r + d + 5, r + d + 6>>))

RawRows(n) == [r \in 1..n |-> RawRow(r - 1)]

FitRows(n, d) == [r \in 1..n |-> FitRow(r - 1, d)]

WideRow == RawRow(1) \o <<" ", "9">>

ShortRow == Join(Numbers(<<0, 1, 2, 3, 4, 5>>))

BadRow == Join(<<<<"0">>, <<"1">>, <<"x">>, <<"3">>, <<"4">>, <<"5">>, <<"6">>>>)

\* the row 0 1 2 3 4 5 6 in other spellings, with surrounding blanks
SpelledRow ==
    <<" ">> \o Join(<<<<"0", "0">>, <<"1", ".", "0">>, <<"+", "2">>, <<"3", ".">>,
                      <<"4", ".", "0", "0">>, <<"0", "5">>, <<"6">>>>) \o <<" ", "\t">>

SpecialRows ==
    {<<RawRow(0), WideRow>>, <<WideRow, RawRow(0)>>, <<WideRow>>, <<ShortRow>>,
     <<RawRow(0), ShortRow>>, <<RawRow(0), BadRow>>, <<SpelledRow>>,
     <<RawRow(0), FitRow(0, 20)>>}

Sigma == <<"S", "i", "g", "m", "a">>

Mean == <<"M", "E", "A", "N">>

StatLine(name, vals) == Join(<<name>> \o Numbers(vals))

Stat1 == StatLine(Sigma, <<10, 20, 30, 40, 50, 60>>)

Stat2 == StatLine(Mean, <<1, 2, 3, 4, 5, 6>>)

Stat3 == StatLine(lower(Sigma), <<7, 8, 9, 10, 11, 12>>)

StatsSecs ==
    {<<>>, <<Stat1>>, <<Stat1, Stat2>>, <<Stat1, Stat3>>, <<Stat3, Stat2, Stat1>>,
     <<StatLine(Sigma, <<10, 20, 30, 40, 50>>)>>,
     <<Stat2, StatLine(Sigma, <<10, 20, 30, 40, 50, 60, 70>>)>>,
     <<Stat1, Join(<<Mean, <<"1">>, <<"2">>, <<"x">>, <<"4">>, <<"5">>, <<"6">>>>)>>,
     <<Join(<<Mean, <<"1">>, <<"2">>, <<"x">>, <<"4">>, <<"5">>>>)>>,
     <<Sigma>>}

BaseBody == Body(<<Stat1>>, RawRows(1), FitRows(1, 0))

DataBodies ==
    {Body(<<Stat1>>, RawRows(n), FitRows(m, d)) :
        n \in 0..MaxRows, m \in 0..MaxRows, d \in {0, 20}}
    \cup {Body(stats, RawRows(1), FitRows(1, 0)) : stats \in StatsSecs}
    \cup {Body(<<Stat1>>, rows, FitRows(1, 0)) : rows \in SpecialRows}
    \cup {Body(<<Stat1>>, RawRows(1), rows) : rows \in SpecialRows}

\* bodies whose section structure is not the three-section one
StructBodies ==
    {<<>>,
     <<TitleLine, RuleLine, Stat1>>,
     <<sep>>,
     <<sep, sep>>,
     Section(<<Stat1>>) \o <<sep>> \o Section(RawRows(1)),
     Section(<<Stat1>>) \o <<sep>> \o Section(RawRows(1)) \o <<sep>>,
     Section(<<Stat1>>) \o <<sep>> \o Section(RawRows(1)) \o <<sep>>
         \o Section(FitRows(1, 0)),
     <<sep>> \o BaseBody,
     Section(<<Stat1>>) \o <<sep, sep>> \o Section(RawRows(1)) \o <<sep>>
         \o Section(FitRows(1, 0)),
     Section(<<Stat1>>) \o <<<<" ">>>> \o Section(RawRows(1)) \o <<<<"\t", " ">>>>
         \o Section(FitRows(1, 0)),
     BaseBody \o Section(<<BadRow>>),
     <<RuleLine>> \o <<sep>> \o Section(RawRows(1)) \o <<sep>>
         \o Section(FitRows(1, 0))}

ScannerId(suffix) == ScannerPrefix \o <<":">> \o suffix

ScannerIds == {ScannerId(<<"2">>), ScannerId(<<"1", "0">>), ScannerId(<<"1">>)}

LoggerLine(n) == LoggerPrefix \o <<"=">> \o format_int(n)

LoggerIds == {7, 12345}

SmallBodies ==
    {BaseBody, <<>>, Body(<<Stat2>>, RawRows(2), FitRows(1, 20)),
     Body(<<Stat1>>, <<BadRow>>, FitRows(1, 0))}

RECURSIVE Blocks(_)
Blocks(n) ==
    IF n = 0 THEN {<<>>}
    ELSE {<<id>> \o body \o rest :
            id \in ScannerIds, body \in SmallBodies, rest \in Blocks(n - 1)}

InsertAt(f, p, line) == SubSeq(f, 1, p) \o <<line>> \o SubSeq(f, p + 1, Len(f))

\* files that meet the file body contract: blocks of three sections
ValidFiles ==
    {<<ScannerId(<<"1">>)>> \o BaseBody,
     <<ScannerId(<<"2">>)>> \o BaseBody \o <<ScannerId(<<"1">>)>>
         \o Body(<<Stat1, Stat2>>, RawRows(2), FitRows(2, 0)),
     <<TitleLine>> \o <<ScannerId(<<"1">>)>> \o BaseBody}

LoggerFiles ==
    UNION {{InsertAt(f, p, LoggerLine(n)) : p \in 0..Len(f), n \in LoggerIds} :
              f \in ValidFiles}

OddFiles ==
    {<<>>,
     <<TitleLine, sep>>,
     <<LoggerLine(7)>> \o <<ScannerId(<<"1">>)>> \o BaseBody,
     <<LoggerPrefix>> \o <<ScannerId(<<"1">>)>> \o BaseBody,
     <<LoggerPrefix \o <<"=", "x">>>> \o <<ScannerId(<<"1">>)>> \o BaseBody,
     <<LoggerPrefix \o <<" ", "=", " ", "7">>>> \o <<ScannerId(<<"1">>)>> \o BaseBody,
     <<ScannerId(<<"1">>) \o <<" ">>>> \o BaseBody \o <<ScannerId(<<"1">>)>>,
     <<ScannerPrefix>> \o BaseBody \o <<ScannerPrefix \o <<" ", "x">>>> \o BaseBody,
     <<ScannerId(<<"1">>)>> \o BaseBody \o <<LoggerLine(7), LoggerLine(12345)>>}

Files ==
    {<<ScannerId(<<"1">>)>> \o body : body \in DataBodies \cup StructBodies}
    \cup UNION {Blocks(n) : n \in 2..MaxBlocks}
    \cup LoggerFiles
    \cup OddFiles

DemoFilename ==
    FilenameMarker \o <<"2", "0", "2", "3", ".", "0", "2", ".", "2", "7", "_",
                        "2", "3", ".", "5", "7", ".", "0", "0">>
                   \o PtaSuffix \o <<".", "t", "x", "t">>

Dot(a, b, c) == a \o <<".">> \o b \o <<".">> \o c

Y2023 == <<"2", "0", "2", "3">>

Filenames ==
    {prefix \o Dot(year, <<"0", "2">>, day) \o <<"_">>
        \o Dot(<<"2", "3">>, <<"5", "7">>, <<"0", "0">>) \o suffix :
        prefix \in {<<>>, FilenameMarker, <<"a", "_", "b", "/">> \o FilenameMarker,
                    <<"a", "/">>},
        year \in {Y2023, <<"2", "0", "2", "4">>, <<"9", "9", "9">>,
                  <<"5">>, <<"0">>, <<"1", "2", "0", "0", "0">>, <<"x">>},
        day \in {<<"2", "7">>, <<"2", "9">>, <<"3", "0">>},
        suffix \in {PtaSuffix \o <<".", "t", "x", "t">>, <<".", "t", "x", "t">>}}
    \cup {FilenameMarker \o Dot(Y2023, month, <<"3", "1">>) \o <<"_">>
              \o Dot(hour, minute, second) \o suffix :
            month \in {<<"1", "2">>, <<"4">>, <<"1", "3">>, <<"0">>},
            hour \in {<<"0">>, <<"2", "4">>},
            minute \in {<<"5", "9">>, <<"6", "0">>},
            second \in {<<"0", "9">>, <<"6", "0">>, <<>>},
            suffix \in {PtaSuffix, <<>>}}
    \cup {FilenameMarker \o Y2023 \o <<".", "0", "2">> \o <<"_">>
              \o Dot(<<"2", "3">>, <<"5", "7">>, <<"0", "0">>) \o PtaSuffix,
          FilenameMarker \o Dot(Y2023, <<"0", "2">>, <<"2", "7">>)
              \o <<"_">> \o <<"2", "3", ".", "5", "7">> \o PtaSuffix,
          FilenameMarker \o Dot(Y2023, <<"0", "2">>, <<"2", "7">>) \o PtaSuffix,
          FilenameMarker}

DemoFile == <<ScannerId(<<"1">>)>> \o BaseBody

(***************************************************************************)
(* The program: wirescan = PTA(filename)                                   *)
(***************************************************************************)
Init ==
    /\ \/ filename = DemoFilename /\ file \in Files
       \/ filename \in Filenames /\ file = DemoFile
    /\ pc = "read_timestamp"
    /\ timestamp = None
    /\ timestamp_short = None
    /\ pvloggerid = None
    /\ node_ids = None
    /\ ws_id = None
    /\ lines = <<>>
    /\ i = 1
    /\ k = 1
    /\ self = <<>>
    /\ wirescan = None
    /\ items = <<>>
    /\ token = <<>>
    /\ sublists = None

\* read_file up to the opening of the file
ReadTimestamp ==
    /\ pc = "read_timestamp"
    /\ LET r == read_timestamp(filename)
       IN IF r.ok
          THEN /\ timestamp' = Some(r.val.timestamp)
               /\ timestamp_short' = Some(r.val.timestamp_short)
               /\ pc' = "for_line"
          ELSE /\ pc' = "error"
               /\ UNCHANGED <<timestamp, timestamp_short>>
    /\ lines' = <<>>
    /\ ws_id' = None
    /\ UNCHANGED <<filename, file, pvloggerid, i, node_ids, k, self, wirescan,
                   items, token, sublists>>

\* one pass of the loop "for line in file"
ReadLine ==
    /\ pc = "for_line"
    /\ i <= Len(file)
    /\ LET line == rstrip(file[i])
       IN IF startswith(line, ScannerPrefix)
          THEN /\ ws_id' = Some(line)
               /\ UNCHANGED <<lines, pvloggerid, pc>>
          ELSE /\ ws_id' = ws_id
               /\ lines' =
                    IF ws_id = None THEN lines
                    ELSE LET id == ws_id[1]
                             old == IF id \in DOMAIN lines THEN lines[id] ELSE <<>>
                         IN [d \in DOMAIN lines \cup {id} |->
                                IF d = id THEN Append(old, line) ELSE lines[d]]
               /\ IF startswith(line, LoggerPrefix)
                  THEN LET r == logger_id(line)
                       IN IF r.ok
                          THEN pvloggerid' = Some(r.val) /\ pc' = pc
                          ELSE pvloggerid' = pvloggerid /\ pc' = "error"
                  ELSE UNCHANGED <<pvloggerid, pc>>
    /\ i' = i + 1
    /\ UNCHANGED <<filename, file, timestamp, timestamp_short, node_ids, k, self,
                   wirescan, items, token, sublists>>

\* file.close(); self.node_ids = sorted(list(lines))
SortIds ==
    /\ pc = "for_line"
    /\ i > Len(file)
    /\ node_ids' = Some(sorted(DOMAIN lines))
    /\ k' = 1
    /\ pc' = "for_node_id"
    /\ UNCHANGED <<filename, file, timestamp, timestamp_short, pvloggerid, ws_id,
                   lines, i, self, wirescan, items, token, sublists>>

\* one pass of the loop "for node_id in self.node_ids"
ReadNode ==
    /\ pc = "for_node_id"
    /\ k <= Len(node_ids[1])
    /\ LET node_id == node_ids[1][k]
           r == read_node(lines[node_id])
       IN IF r.ok
          THEN /\ self' = [d \in DOMAIN self \cup {node_id} |->
                              IF d = node_id THEN r.val ELSE self[d]]
               /\ pc' = pc
          ELSE /\ self' = self
               /\ pc' = "error"
    /\ k' = k + 1
    /\ UNCHANGED <<filename, file, timestamp, timestamp_short, pvloggerid, ws_id,
                   lines, i, node_ids, wirescan, items, token, sublists>>

\* __init__ returns and the caller binds the object
Return ==
    /\ pc = "for_node_id"
    /\ k > Len(node_ids[1])
    /\ wirescan' = Some([filename |-> filename,
                        filename_short |-> filename_short(filename),
                        timestamp |-> timestamp,
                        timestamp_short |-> timestamp_short,
                        pvloggerid |-> pvloggerid,
                        node_ids |-> node_ids,
                        dict |-> self])
    /\ pc' = "done"
    /\ UNCHANGED <<filename, file, timestamp, timestamp_short, pvloggerid, ws_id,
                   lines, i, node_ids, k, self, items, token, sublists>>

Next == ReadTimestamp \/ ReadLine \/ SortIds \/ ReadNode \/ Return

Spec == Init /\ [][Next]_vars

(***************************************************************************)
(* split(items, token) on its own                                          *)
(***************************************************************************)
SplitItems == {<<>>, <<"a">>, <<"b">>}

RECURSIVE Lists(_)
Lists(n) ==
    IF n = 0 THEN {<<>>}
    ELSE Lists(n - 1)
         \cup {Append(l, e) : l \in {m \in Lists(n - 1) : Len(m) = n - 1},
                              e \in SplitItems}

InitSplit ==
    /\ items \in Lists(MaxLen)
    /\ token \in {sep, <<"a">>}
    /\ sublists = None
    /\ pc = "split"
    /\ filename = <<>>
    /\ file = <<>>
    /\ timestamp = None
    /\ timestamp_short = None
    /\ pvloggerid = None
    /\ node_ids = None
    /\ ws_id = None
    /\ lines = <<>>
    /\ i = 1
    /\ k = 1
    /\ self = <<>>
    /\ wirescan = None

CallSplit ==
    /\ pc = "split"
    /\ sublists' = Some(split(items, token))
    /\ pc' = "returned"
    /\ UNCHANGED <<filename, file, timestamp, timestamp_short, pvloggerid, ws_id,
                   lines, i, node_ids, k, self, wirescan, items, token>>

NextSplit == CallSplit

SpecSplit == InitSplit /\ [][NextSplit]_vars

(***************************************************************************)
(* Vocabulary of the properties                                            *)
(***************************************************************************)
Finished == pc \in {"done", "error"}

\* the scanner-ID marker lines of a file, as the line loop sees them
MarkerLines(f) ==
    {rstrip(f[n]) : n \in {m \in 1..Len(f) : startswith(rstrip(f[m]), ScannerPrefix)}}

Range(seq) == {seq[n] : n \in 1..Len(seq)}

\* the data lines (header dropped) of section n of a scanner's line list
DataLines(block, n) == From(split(block, sep).val[n], 2)

\* column c (1-based) of data lines, as floats, row by row
Column(rows, c) == [r \in 1..Len(rows) |-> pyfloat(ws_split(rows[r])[c]).val]

StatKeys(name) ==
    {name \o Key(axis, kind) : axis \in {"x", "y", "u"}, kind \in {Fit, Rms}}

\* the stats mapping holds what the stats data line says, by position
StatsHoldLine(stats, line) ==
    LET tokens == ws_split(line)
        name == lower(tokens[1])
        v(n) == pyfloat(tokens[n + 1]).val
    IN /\ StatKeys(name) \subseteq DOMAIN stats
       /\ stats[name \o Key("y", Fit)] = v(1)
       /\ stats[name \o Key("y", Rms)] = v(2)
       /\ stats[name \o Key("u", Fit)] = v(3)
       /\ stats[name \o Key("u", Rms)] = v(4)
       /\ stats[name \o Key("x", Fit)] = v(5)
       /\ stats[name \o Key("x", Rms)] = v(6)

StatName(line) == lower(ws_split(line)[1])

Numeric(tokens) == \A n \in 1..Len(tokens) : pyfloat(tokens[n]).ok

\* a scanner's line list with one of the defects that must abort construction
Flawed(block) ==
    LET r == split(block, sep)
    IN \/ ~r.ok
       \/ Len(r.val) < 3
       \/ \E line \in Range(DataLines(block, 1)) :
              \/ Len(ws_split(line)) # 7
              \/ ~Numeric(Tail(ws_split(line)))
       \/ \E n \in {2, 3} : \E line \in Range(DataLines(block, n)) :
              ~Numeric(ws_split(line))

\* the file is a valid file with one logger line put inside a scanner block
LoggerInBlock(f, n) ==
    \E v \in ValidFiles : \E p \in 1..Len(v) :
        /\ \E q \in 1..p : startswith(v[q], ScannerPrefix)
        /\ f = InsertAt(v, p, LoggerLine(n))

TwoDigits(n) == <<Digits[(n \div 10) + 1], Digits[(n % 10) + 1]>>

(***************************************************************************)
(* Properties                                                              *)
(***************************************************************************)
\* C1: when construction succeeds on a file with K distinct scanner-ID
\* marker lines, node_ids has exactly K entries, is strictly sorted (sorted,
\* no duplicates) and equals the marker set, which is the key set of the
\* profile mapping.
C1_ScannerIdsAreTheMarkers ==
    pc = "done" =>
        LET ids == wirescan[1].node_ids[1]
        IN /\ Len(ids) = Cardinality(MarkerLines(file))
           /\ \A a, b \in 1..Len(ids) : a < b => str_less(ids[a], ids[b])
           /\ Range(ids) = MarkerLines(file)
           /\ DOMAIN wirescan[1].dict = MarkerLines(file)

\* C2: for every parsed scanner the stored x, y, u are columns 5, 6, 7 of
\* the raw section's data rows, so they have the raw row count and are
\* aligned with fx, fy, fu, whatever the fit section holds.
C2_PositionsAreRawColumns ==
    pc = "done" =>
        \A id \in DOMAIN wirescan[1].dict :
            LET prof == wirescan[1].dict[id]
                rows == DataLines(lines[id], 2)
            IN /\ prof.x = Column(rows, 5)
               /\ prof.y = Column(rows, 6)
               /\ prof.u = Column(rows, 7)
               /\ Len(prof.x) = Len(prof.fx)

\* C3: amplitudes are assigned by position: for every parsed scanner fy, fu,
\* fx are tokens 2, 3, 4 of the raw data rows and fy_fit, fu_fit, fx_fit
\* tokens 2, 3, 4 of the fit data rows, row by row in file order; the
\* position column is not a field of the profile.
C3_AmplitudesByPosition ==
    pc = "done" =>
        \A id \in DOMAIN wirescan[1].dict :
            LET prof == wirescan[1].dict[id]
                raw == DataLines(lines[id], 2)
                fit == DataLines(lines[id], 3)
            IN /\ prof.fy = Column(raw, 2)
               /\ prof.fu = Column(raw, 3)
               /\ prof.fx = Column(raw, 4)
               /\ prof.fy_fit = Column(fit, 2)
               /\ prof.fu_fit = Column(fit, 3)
               /\ prof.fx_fit = Column(fit, 4)
               /\ DOMAIN prof = {"x", "y", "u", "fx", "fy", "fu",
                                 "fx_fit", "fy_fit", "fu_fit", "stats"}

\* a scanner was parsed whose raw and fit sections have two rows each, with
\* amplitudes that differ between rows and between columns
C3_Witness ==
    /\ pc = "done"
    /\ \E id \in DOMAIN wirescan[1].dict :
          LET prof == wirescan[1].dict[id]
          IN /\ Len(prof.fy) = 2 /\ prof.fy[1] # prof.fy[2]
             /\ Len(prof.fy_fit) = 2 /\ prof.fy_fit[1] # prof.fy_fit[2]
             /\ prof.fy # prof.fu /\ prof.fu # prof.fx /\ prof.fy # prof.fy_fit

\* C4 as stated: for every stats data line of a parsed scanner the stats
\* mapping holds the six keys of its lower-cased name with the line's six
\* values by position, and every key of stats is <name>_<axis>_<kind>.
C4_EveryStatsLineIsHeld ==
    pc = "done" =>
        \A id \in DOMAIN wirescan[1].dict :
            LET stats == wirescan[1].dict[id].stats
                rows == DataLines(lines[id], 1)
            IN /\ \A n \in 1..Len(rows) : StatsHoldLine(stats, rows[n])
               /\ DOMAIN stats = UNION {StatKeys(StatName(rows[n])) : n \in 1..Len(rows)}

\* C4 amended: the same for every stats data line that no later stats line
\* of the scanner repeats the lower-cased name of; every key of stats is
\* <name>_<axis>_<kind> for the lower-cased name of some stats line.
C4_LastStatsLineIsHeld ==
    pc = "done" =>
        \A id \in DOMAIN wirescan[1].dict :
            LET stats == wirescan[1].dict[id].stats
                rows == DataLines(lines[id], 1)
            IN /\ \A n \in 1..Len(rows) :
                    (\A m \in (n + 1)..Len(rows) : StatName(rows[m]) # StatName(rows[n]))
                        => StatsHoldLine(stats, rows[n])
               /\ DOMAIN stats = UNION {StatKeys(StatName(rows[n])) : n \in 1..Len(rows)}

\* a scanner was parsed whose stats section has a line with capitals in its
\* name and two lines of different names
C4_Witness ==
    /\ pc = "done"
    /\ \E id \in DOMAIN wirescan[1].dict :
          LET rows == DataLines(lines[id], 1)
          IN /\ \E n \in 1..Len(rows) : ws_split(rows[n])[1] # StatName(rows[n])
             /\ \E n, m \in 1..Len(rows) : StatName(rows[n]) # StatName(rows[m])
             /\ Cardinality(DOMAIN wirescan[1].dict[id].stats) = 12

\* C5: split returns one section holding the whole input when the sentinel
\* does not occur in a non-empty input, and no section when the input is
\* one or more sentinels and nothing else.
C5_SplitLaws ==
    sublists # None =>
        /\ (items # <<>> /\ token \notin Range(items))
              => sublists[1].ok /\ sublists[1].val = <<items>>
        /\ (items # <<>> /\ Range(items) = {token})
              => sublists[1].ok /\ sublists[1].val = <<>>

\* C6: a valid file with a line PVLoggerID=<n> put anywhere inside a scanner
\* block is constructed, and its pvloggerid is n.
C6_LoggerLineInsideBlock ==
    \A n \in LoggerIds :
        (Finished /\ LoggerInBlock(file, n))
            => pc = "done" /\ wirescan[1].pvloggerid = Some(n)

C8_TimestampNeedsMarker ==
    pc # "read_timestamp" =>
        /\ find(filename, FilenameMarker) = 0 => timestamp = None
        /\ timestamp # None =>
              LET after == str_split(filename, FilenameMarker)
                  name == after[Len(after)]
                  date_time == str_split(name, <<"_">>)
                  date == str_split(date_time[1], <<".">>)
                  time == str_split(str_split(date_time[2], PtaSuffix)[1], <<".">>)
              IN /\ Len(date) = 3 /\ Len(time) = 3
                 /\ \A n \in 1..3 : pyint(date[n]).ok /\ pyint(time[n]).ok

\* C9: whenever the timestamp is extracted, timestamp_short is the 12
\* characters YYMMDDhhmmss: the year's last two digits, then month, day,
\* hour, minute, second, each as two digits.
C9_ShortTimestampIs12Chars ==
    timestamp_short # None =>
        LET t == timestamp[1]
        IN /\ Len(timestamp_short[1]) = 12
           /\ timestamp_short[1] =
                TwoDigits(t[1] % 100) \o TwoDigits(t[2]) \o TwoDigits(t[3])
                    \o TwoDigits(t[4]) \o TwoDigits(t[5]) \o TwoDigits(t[6])

\* C10: construction succeeds only if every data row of every scanner's raw
\* and fit sections has exactly 7 tokens: no row is cut to fit.
C10_RowWidthIsChecked ==
    pc = "done" =>
        \A id \in DOMAIN lines : \A n \in {2, 3} :
            \A line \in Range(DataLines(lines[id], n)) : Len(ws_split(line)) = 7

====
